---- MODULE Spec2Model ----
(***************************************************************************)
(* Definition Studio (DefinitionStudio.vue): the category registry, the    *)
(* item definition registry, the two editing drafts and the format string  *)
(* derived from the item draft.                                            *)
(*                                                                         *)
(* Text is modelled by TLA+ strings; a TLA+ string literal is ASCII, so    *)
(* the literal token {角色} of the source is written "{JueSe}" and the     *)
(* sample texts typed by the operator are ASCII.                           *)
(***************************************************************************)
EXTENDS Integers, Sequences, FiniteSets, TLC

VARIABLES categories, itemDefinitions, selectedCategoryKey,
          isEditingCategory, isEditingItem, categoryForm, itemForm, lastOp,
          insertionOrder

vars == <<categories, itemDefinitions, selectedCategoryKey,
          isEditingCategory, isEditingItem, categoryForm, itemForm, lastOp,
          insertionOrder>>

----------------------------------------------------------------------------
(* Bounds of the model                                                     *)

\* largest number of parts the operator puts into the item draft
MaxParts == 3
\* largest sort weight the operator types into the category draft
MaxOrder == 1

\* the texts the operator types into a key field of the category drawer
CategoryKeyInputs == {"", " ", "CV", "ST1"}
\* a key field takes any text: the keys that read as an array index
IndexKeyInputs == {"7"}
\* the texts the operator types into a name field
NameInputs == {"", " ", "N"}
\* the texts the operator types into the key field of the item drawer
ItemKeyInputs == {"", " ", "HP", "MP"}
\* the texts the operator types into a part's key field
PartKeyInputs == {"", "value", "max"}
\* the texts the operator types into the two separator fields
SeparatorInputs == {"|", ","}
SecondarySeparatorInputs == {"", "@", "#"}
\* the texts the operator types into the description field
DescriptionInputs == {"", "d"}
\* the texts the operator types into a part's label field
LabelInputs == {"", "L"}

----------------------------------------------------------------------------
(* JavaScript values                                                       *)

\* null (selectedCategoryKey) and undefined (a property that is absent)
Null == "<null>"
Undefined == "<undefined>"

\* String.prototype.trim, for the blank U+0020
RECURSIVE TrimStart(_)
TrimStart(s) ==
  IF Len(s) > 0 /\ SubSeq(s, 1, 1) = " "
  THEN TrimStart(SubSeq(s, 2, Len(s)))
  ELSE s

RECURSIVE TrimEnd(_)
TrimEnd(s) ==
  IF Len(s) > 0 /\ SubSeq(s, Len(s), Len(s)) = " "
  THEN TrimEnd(SubSeq(s, 1, Len(s) - 1))
  ELSE s

Trim(s) == TrimEnd(TrimStart(s))

\* Array.prototype.join on an array of strings
RECURSIVE Join(_, _)
Join(strs, sep) ==
  IF Len(strs) = 0 THEN ""
  ELSE IF Len(strs) = 1 THEN strs[1]
  ELSE strs[1] \o sep \o Join(Tail(strs), sep)

(* A Record<string, T> is a JavaScript object: a sequence of properties    *)
(* [k |-> property name, v |-> value] in the order Object.values           *)
(* enumerates them: the names that are array indices ("0", "7", "12")      *)
(* first, by ascending value, then the other names in the order of         *)
(* their creation.                                                         *)
DigitChars == "0123456789"

IsDigit(c) == \E d \in 1..10 : SubSeq(DigitChars, d, d) = c

DigitValue(c) == (CHOOSE d \in 1..10 : SubSeq(DigitChars, d, d) = c) - 1

\* a < b for two strings of digits of one length
RECURSIVE DigitsLess(_, _)
DigitsLess(a, b) ==
  IF Len(a) = 0 THEN FALSE
  ELSE LET x == DigitValue(SubSeq(a, 1, 1))
           y == DigitValue(SubSeq(b, 1, 1))
       IN  \/ x < y
           \/ x = y /\ DigitsLess(SubSeq(a, 2, Len(a)), SubSeq(b, 2, Len(b)))

\* a < b as numbers, for two canonical numeric strings
IndexLess(a, b) ==
  \/ Len(a) < Len(b)
  \/ Len(a) = Len(b) /\ DigitsLess(a, b)

\* the largest array index is 2^32 - 2
MaxArrayIndexBound == "4294967295"

\* a canonical numeric string below 2^32 - 1
IsArrayIndex(k) ==
  /\ Len(k) > 0
  /\ \A i \in 1..Len(k) : IsDigit(SubSeq(k, i, i))
  /\ (Len(k) > 1 => SubSeq(k, 1, 1) # "0")
  /\ IndexLess(k, MaxArrayIndexBound)

ObjKeys(obj) == {obj[i].k : i \in 1..Len(obj)}

ObjHas(obj, k) == k \in ObjKeys(obj)

\* obj[k], for a k that obj has
ObjGet(obj, k) == obj[CHOOSE i \in 1..Len(obj) : obj[i].k = k].v

\* Object.values(obj)
ObjValues(obj) == [i \in 1..Len(obj) |-> obj[i].v]

\* the place a new property k takes in the enumeration order of obj
InsertAt(obj, k) ==
  IF IsArrayIndex(k)
  THEN 1 + Cardinality({i \in 1..Len(obj) :
                          /\ IsArrayIndex(obj[i].k)
                          /\ IndexLess(obj[i].k, k)})
  ELSE Len(obj) + 1

\* obj[k] = v
ObjSet(obj, k, v) ==
  IF ObjHas(obj, k)
  THEN [i \in 1..Len(obj) |-> IF obj[i].k = k THEN [k |-> k, v |-> v] ELSE obj[i]]
  ELSE LET at == InsertAt(obj, k)
       IN  SubSeq(obj, 1, at - 1) \o <<[k |-> k, v |-> v]>> \o SubSeq(obj, at, Len(obj))

\* delete obj[k]
ObjDelete(obj, k) == SelectSeq(obj, LAMBDA e : e.k # k)

\* Array.prototype.sort with the comparator (a, b) => a.order - b.order:
\* a stable sort, by insertion of each element behind those not above it
RECURSIVE SortByOrder(_)
SortByOrder(arr) ==
  IF Len(arr) = 0 THEN <<>>
  ELSE LET rest == SortByOrder(SubSeq(arr, 1, Len(arr) - 1))
           last == arr[Len(arr)]
           at == Cardinality({i \in 1..Len(rest) : rest[i].order <= last.order})
       IN  SubSeq(rest, 1, at) \o <<last>> \o SubSeq(rest, at + 1, Len(rest))

----------------------------------------------------------------------------
(* State                                                                   *)

\* the literal {角色}
RoleToken == "{JueSe}"

\* the reactive categoryForm as constructed
InitialCategoryForm ==
  [key |-> "", name |-> "", icon |-> "folder", order |-> 0, scope |-> "character"]

\* the reactive itemForm as constructed: it has no format property
InitialItemForm ==
  [key |-> "", name |-> "", icon |-> "", category |-> "", entry_type |-> "Single",
   parts |-> <<>>, separator |-> "|", secondary_separator |-> "@",
   description |-> "", format |-> Undefined]

\* lastOp is a history variable: the handler that ran last, with its
\* arguments, when the step records it; again tells that the recorded
\* handler before it was the same handler
NoOp == [op |-> "none", arg |-> <<>>, again |-> FALSE]

\* insertionOrder is a history variable: the keys of the category registry
\* in the order of the saves that created them

Init ==
  /\ categories = <<>>
  /\ itemDefinitions = <<>>
  /\ selectedCategoryKey = Null
  /\ isEditingCategory = FALSE
  /\ isEditingItem = FALSE
  /\ categoryForm = InitialCategoryForm
  /\ itemForm = InitialItemForm
  /\ lastOp = NoOp
  /\ insertionOrder = <<>>

----------------------------------------------------------------------------
(* Computed properties                                                     *)

sortedCategories == SortByOrder(ObjValues(categories))

\* filterItems that shows, without a selection, the items of the listed
\* categories only
filterItemsListedOnly(items, selected) ==
  LET InSelected(item) == item.category = selected
      Listed(item) == item.category = "" \/ ObjHas(categories, item.category)
  IN  IF selected = Null \/ selected = ""
      THEN SelectSeq(ObjValues(items), Listed)
      ELSE SelectSeq(ObjValues(items), InSelected)

\* the body of the computed filteredItems, of the item registry items and
\* the selection selected
filterItems(items, selected) ==
  LET InSelected(item) == item.category = selected
  IN  IF selected = Null \/ selected = ""
      THEN ObjValues(items)
      ELSE SelectSeq(ObjValues(items), InSelected)

filteredItems == filterItems(itemDefinitions, selectedCategoryKey)

\* scopeToken with the test turned round, cat?.scope !== 'character': a
\* category that is not in the registry gets ST
scopeTokenNotCharacter(category, cats) ==
  IF ObjHas(cats, category) /\ ObjGet(cats, category).scope = "character"
  THEN RoleToken
  ELSE "ST"

\* cat?.scope === 'shared' ? 'ST' : '{角色}', cat = cats[category]
scopeToken(category, cats) ==
  IF ObjHas(cats, category) /\ ObjGet(cats, category).scope = "shared"
  THEN "ST"
  ELSE RoleToken

\* p => `{${p.key}}`
WrapKey(p) == "{" \o p.key \o "}"

WrappedKeys(parts) == [i \in 1..Len(parts) |-> WrapKey(parts[i])]

\* the List template, as valuePart builds it
ListTemplate(form) ==
  IF Len(form.parts) > 1
  THEN Join(WrappedKeys(form.parts),
            IF form.secondary_separator = "" THEN "@" ELSE form.secondary_separator)
  ELSE "{" \o (IF Len(form.parts) = 0 \/ form.parts[1].key = "" THEN "item"
               ELSE form.parts[1].key) \o "}"

\* valuePart that tests entry_type before parts.length: a List draft
\* without parts gets the List suffix
valuePartListFirst(form) ==
  IF form.entry_type = "List"
  THEN ListTemplate(form) \o form.separator \o "..."
  ELSE IF Len(form.parts) = 0
  THEN "{" \o form.key \o "}"
  ELSE Join(WrappedKeys(form.parts), form.separator)

\* valuePart that joins the parts of a Single draft with secondary_separator
valuePartSingleSecondary(form) ==
  IF Len(form.parts) = 0
  THEN "{" \o form.key \o "}"
  ELSE IF form.entry_type = "Single"
  THEN Join(WrappedKeys(form.parts), form.secondary_separator)
  ELSE ListTemplate(form) \o form.separator \o "..."

\* valuePart without the || 'item' of the one-part List template
valuePartNoItemFallback(form) ==
  IF Len(form.parts) = 0
  THEN "{" \o form.key \o "}"
  ELSE IF form.entry_type = "Single"
  THEN Join(WrappedKeys(form.parts), form.separator)
  ELSE (IF Len(form.parts) > 1 THEN ListTemplate(form)
        ELSE "{" \o form.parts[1].key \o "}") \o form.separator \o "..."

\* valuePart that joins the parts of a List element with separator
valuePartListPrimary(form) ==
  IF Len(form.parts) = 0
  THEN "{" \o form.key \o "}"
  ELSE IF form.entry_type = "Single"
  THEN Join(WrappedKeys(form.parts), form.separator)
  ELSE (IF Len(form.parts) > 1 THEN Join(WrappedKeys(form.parts), form.separator)
        ELSE ListTemplate(form)) \o form.separator \o "..."

\* valuePart whose one-part List template is always {item}
valuePartItemForOnePart(form) ==
  IF Len(form.parts) = 0
  THEN "{" \o form.key \o "}"
  ELSE IF form.entry_type = "Single"
  THEN Join(WrappedKeys(form.parts), form.separator)
  ELSE (IF Len(form.parts) > 1 THEN ListTemplate(form) ELSE "{item}")
       \o form.separator \o "..."

\* the valuePart of generatedFormat, of the draft form
valuePart(form) ==
  IF Len(form.parts) = 0
  THEN "{" \o form.key \o "}"
  ELSE IF form.entry_type = "Single"
  THEN Join(WrappedKeys(form.parts), form.separator)
  ELSE LET partTemplate ==
             IF Len(form.parts) > 1
             THEN Join(WrappedKeys(form.parts),
                       IF form.secondary_separator = "" THEN "@"
                       ELSE form.secondary_separator)
             ELSE "{" \o (IF form.parts[1].key = "" THEN "item"
                          ELSE form.parts[1].key) \o "}"
       IN  partTemplate \o form.separator \o "..."

\* generateFormat that writes the trimmed key and category
generateFormatTrimmed(form, cats) ==
  IF form.key = "" \/ form.category = ""
  THEN ""
  ELSE "[" \o scopeToken(form.category, cats) \o "^" \o Trim(form.category) \o "|"
           \o Trim(form.key) \o "::" \o valuePart(form) \o "]"

\* generateFormat that returns early on an empty key only
generateFormatKeyOnly(form, cats) ==
  IF form.key = ""
  THEN ""
  ELSE "[" \o scopeToken(form.category, cats) \o "^" \o form.category \o "|"
           \o form.key \o "::" \o valuePart(form) \o "]"

\* the body of the computed generatedFormat, of the draft form and the
\* category registry cats
generateFormat(form, cats) ==
  IF form.key = "" \/ form.category = ""
  THEN ""
  ELSE "[" \o scopeToken(form.category, cats) \o "^" \o form.category \o "|"
           \o form.key \o "::" \o valuePart(form) \o "]"

generatedFormat == generateFormat(itemForm, categories)

----------------------------------------------------------------------------
(* Category operations                                                     *)

openNewCategory ==
  /\ categoryForm' = [key |-> "", name |-> "", icon |-> "folder",
                      order |-> Len(sortedCategories), scope |-> "character"]
  /\ isEditingCategory' = TRUE
  /\ UNCHANGED <<categories, itemDefinitions, selectedCategoryKey, isEditingItem, itemForm>>

editCategory(cat) ==
  /\ categoryForm' = cat
  /\ isEditingCategory' = TRUE
  /\ UNCHANGED <<categories, itemDefinitions, selectedCategoryKey, isEditingItem, itemForm>>

\* v-model="categoryForm.key"
SetCategoryKey(k) ==
  /\ categoryForm' = [categoryForm EXCEPT !.key = k]
  /\ UNCHANGED <<categories, itemDefinitions, selectedCategoryKey,
                 isEditingCategory, isEditingItem, itemForm>>

\* v-model="categoryForm.name"
SetCategoryName(n) ==
  /\ categoryForm' = [categoryForm EXCEPT !.name = n]
  /\ UNCHANGED <<categories, itemDefinitions, selectedCategoryKey,
                 isEditingCategory, isEditingItem, itemForm>>

\* v-model="categoryForm.scope", the two radio buttons
SetCategoryScope(s) ==
  /\ categoryForm' = [categoryForm EXCEPT !.scope = s]
  /\ UNCHANGED <<categories, itemDefinitions, selectedCategoryKey,
                 isEditingCategory, isEditingItem, itemForm>>

\* v-model.number="categoryForm.order"
SetCategoryOrder(o) ==
  /\ categoryForm' = [categoryForm EXCEPT !.order = o]
  /\ UNCHANGED <<categories, itemDefinitions, selectedCategoryKey,
                 isEditingCategory, isEditingItem, itemForm>>

\* the guard of saveCategory without trim: a blank key or name passes
CategoryFormValidNoTrim(form) == form.key # "" /\ form.name # ""

\* the guard of saveCategory: it returns at once when this fails
CategoryFormValid(form) == Trim(form.key) # "" /\ Trim(form.name) # ""

\* saveCategory that only creates: a key that is in the registry keeps
\* its entry
saveCategoryCreateOnly ==
  /\ IF ~CategoryFormValid(categoryForm)
     THEN UNCHANGED <<categories, isEditingCategory>>
     ELSE /\ categories' = IF ObjHas(categories, categoryForm.key) THEN categories
                           ELSE ObjSet(categories, categoryForm.key, categoryForm)
          /\ isEditingCategory' = FALSE
  /\ UNCHANGED <<itemDefinitions, selectedCategoryKey, isEditingItem,
                 categoryForm, itemForm>>

\* saveCategory that derives the format of the category's items anew
saveCategoryRefreshesFormats ==
  /\ IF ~CategoryFormValid(categoryForm)
     THEN UNCHANGED <<categories, itemDefinitions, isEditingCategory>>
     ELSE /\ categories' = ObjSet(categories, categoryForm.key, categoryForm)
          /\ itemDefinitions' =
               [i \in 1..Len(itemDefinitions) |->
                  IF itemDefinitions[i].v.category = categoryForm.key
                  THEN [itemDefinitions[i] EXCEPT
                          !.v.format = generateFormat(itemDefinitions[i].v, categories')]
                  ELSE itemDefinitions[i]]
          /\ isEditingCategory' = FALSE
  /\ UNCHANGED <<selectedCategoryKey, isEditingItem, categoryForm, itemForm>>

saveCategory ==
  /\ IF ~CategoryFormValid(categoryForm)
     THEN UNCHANGED <<categories, isEditingCategory>>
     ELSE /\ categories' = ObjSet(categories, categoryForm.key, categoryForm)
          /\ isEditingCategory' = FALSE
  /\ UNCHANGED <<itemDefinitions, selectedCategoryKey, isEditingItem,
                 categoryForm, itemForm>>

\* deleteCategory that leaves the selection as it is
deleteCategoryKeepsSelection(key, confirmed) ==
  /\ IF confirmed
     THEN categories' = ObjDelete(categories, key)
     ELSE UNCHANGED categories
  /\ UNCHANGED <<itemDefinitions, selectedCategoryKey, isEditingCategory,
                 isEditingItem, categoryForm, itemForm>>

\* deleteCategory that clears the selection outside the if
deleteCategoryClearsFirst(key, confirmed) ==
  /\ IF confirmed
     THEN categories' = ObjDelete(categories, key)
     ELSE UNCHANGED categories
  /\ selectedCategoryKey' =
       IF selectedCategoryKey = key THEN Null ELSE selectedCategoryKey
  /\ UNCHANGED <<itemDefinitions, isEditingCategory, isEditingItem,
                 categoryForm, itemForm>>

\* deleteCategory that deletes the items of the category with it
deleteCategoryCascade(key, confirmed) ==
  /\ IF confirmed
     THEN /\ categories' = ObjDelete(categories, key)
          /\ itemDefinitions' = SelectSeq(itemDefinitions, LAMBDA e : e.v.category # key)
          /\ selectedCategoryKey' =
               IF selectedCategoryKey = key THEN Null ELSE selectedCategoryKey
     ELSE UNCHANGED <<categories, itemDefinitions, selectedCategoryKey>>
  /\ UNCHANGED <<isEditingCategory, isEditingItem, categoryForm, itemForm>>

\* deleteCategory(key); confirmed is the operator's answer to confirm()
deleteCategory(key, confirmed) ==
  /\ IF confirmed
     THEN /\ categories' = ObjDelete(categories, key)
          /\ selectedCategoryKey' =
               IF selectedCategoryKey = key THEN Null ELSE selectedCategoryKey
     ELSE UNCHANGED <<categories, selectedCategoryKey>>
  /\ UNCHANGED <<itemDefinitions, isEditingCategory, isEditingItem,
                 categoryForm, itemForm>>

\* the overlay, the x button and the cancel button of the category drawer
cancelCategory ==
  /\ isEditingCategory' = FALSE
  /\ UNCHANGED <<categories, itemDefinitions, selectedCategoryKey, isEditingItem,
                 categoryForm, itemForm>>

\* @click="selectedCategoryKey = null" and @click="selectedCategoryKey = cat.key"
selectCategory(k) ==
  /\ selectedCategoryKey' = k
  /\ UNCHANGED <<categories, itemDefinitions, isEditingCategory, isEditingItem,
                 categoryForm, itemForm>>

----------------------------------------------------------------------------
(* Item operations                                                         *)

\* Object.assign leaves the draft's format property as it is
openNewItem ==
  /\ itemForm' = [itemForm EXCEPT
                    !.key = "", !.name = "", !.icon = "",
                    !.category = IF selectedCategoryKey = Null THEN ""
                                 ELSE selectedCategoryKey,
                    !.entry_type = "Single",
                    !.parts = <<[key |-> "value", label |-> "zhi", data_type |-> "string"]>>,
                    !.separator = "|", !.secondary_separator = "@",
                    !.description = ""]
  /\ isEditingItem' = TRUE
  /\ UNCHANGED <<categories, itemDefinitions, selectedCategoryKey,
                 isEditingCategory, categoryForm>>

\* item is a committed entry: it has every property, format too
editItem(item) ==
  /\ itemForm' = item
  /\ isEditingItem' = TRUE
  /\ UNCHANGED <<categories, itemDefinitions, selectedCategoryKey,
                 isEditingCategory, categoryForm>>

\* v-model="itemForm.key"
SetItemKey(k) ==
  /\ itemForm' = [itemForm EXCEPT !.key = k]
  /\ UNCHANGED <<categories, itemDefinitions, selectedCategoryKey,
                 isEditingCategory, isEditingItem, categoryForm>>

\* v-model="itemForm.name"
SetItemName(n) ==
  /\ itemForm' = [itemForm EXCEPT !.name = n]
  /\ UNCHANGED <<categories, itemDefinitions, selectedCategoryKey,
                 isEditingCategory, isEditingItem, categoryForm>>

\* v-model="itemForm.category" of the select
SetItemCategory(c) ==
  /\ itemForm' = [itemForm EXCEPT !.category = c]
  /\ UNCHANGED <<categories, itemDefinitions, selectedCategoryKey,
                 isEditingCategory, isEditingItem, categoryForm>>

\* v-model="itemForm.entry_type", the two radio buttons
SetItemEntryType(t) ==
  /\ itemForm' = [itemForm EXCEPT !.entry_type = t]
  /\ UNCHANGED <<categories, itemDefinitions, selectedCategoryKey,
                 isEditingCategory, isEditingItem, categoryForm>>

\* v-model="itemForm.separator"
SetItemSeparator(s) ==
  /\ itemForm' = [itemForm EXCEPT !.separator = s]
  /\ UNCHANGED <<categories, itemDefinitions, selectedCategoryKey,
                 isEditingCategory, isEditingItem, categoryForm>>

\* v-model="itemForm.secondary_separator", an input shown for entry_type List
SetItemSecondarySeparator(s) ==
  /\ itemForm.entry_type = "List"
  /\ itemForm' = [itemForm EXCEPT !.secondary_separator = s]
  /\ UNCHANGED <<categories, itemDefinitions, selectedCategoryKey,
                 isEditingCategory, isEditingItem, categoryForm>>

\* v-model="itemForm.description"
SetItemDescription(d) ==
  /\ itemForm' = [itemForm EXCEPT !.description = d]
  /\ UNCHANGED <<categories, itemDefinitions, selectedCategoryKey,
                 isEditingCategory, isEditingItem, categoryForm>>

\* the guard of saveItem: it returns at once when this fails
ItemFormValid(form) == Trim(form.key) # "" /\ Trim(form.name) # ""

\* saveItem that derives the format only when the draft has none
saveItemKeepsFormat ==
  /\ IF ~ItemFormValid(itemForm)
     THEN UNCHANGED <<itemDefinitions, itemForm, isEditingItem>>
     ELSE LET saved == [itemForm EXCEPT
                          !.format = IF @ \in {Undefined, ""} THEN generatedFormat
                                     ELSE @] IN
          /\ itemForm' = saved
          /\ itemDefinitions' = ObjSet(itemDefinitions, saved.key, saved)
          /\ isEditingItem' = FALSE
  /\ UNCHANGED <<categories, selectedCategoryKey, isEditingCategory, categoryForm>>

\* saveItem that derives the format before it validates the draft
saveItemFormatFirst ==
  /\ IF ~ItemFormValid(itemForm)
     THEN /\ itemForm' = [itemForm EXCEPT !.format = generatedFormat]
          /\ UNCHANGED <<itemDefinitions, isEditingItem>>
     ELSE LET saved == [itemForm EXCEPT !.format = generatedFormat] IN
          /\ itemForm' = saved
          /\ itemDefinitions' = ObjSet(itemDefinitions, saved.key, saved)
          /\ isEditingItem' = FALSE
  /\ UNCHANGED <<categories, selectedCategoryKey, isEditingCategory, categoryForm>>

\* saveItem that stores the draft before it derives the format: the entry
\* gets the format the draft carried
saveItemStoresFirst ==
  /\ IF ~ItemFormValid(itemForm)
     THEN UNCHANGED <<itemDefinitions, itemForm, isEditingItem>>
     ELSE /\ itemDefinitions' = ObjSet(itemDefinitions, itemForm.key, itemForm)
          /\ itemForm' = [itemForm EXCEPT !.format = generatedFormat]
          /\ isEditingItem' = FALSE
  /\ UNCHANGED <<categories, selectedCategoryKey, isEditingCategory, categoryForm>>

\* saveItem that renames: the entry the draft was opened from, the one
\* whose format the draft still carries, goes when the draft is saved
saveItemRenames ==
  /\ IF ~ItemFormValid(itemForm)
     THEN UNCHANGED <<itemDefinitions, itemForm, isEditingItem>>
     ELSE LET saved == [itemForm EXCEPT !.format = generatedFormat]
              others == SelectSeq(itemDefinitions,
                                  LAMBDA e : ~(isEditingItem /\ e.v.format = itemForm.format))
          IN
          /\ itemForm' = saved
          /\ itemDefinitions' = ObjSet(others, saved.key, saved)
          /\ isEditingItem' = FALSE
  /\ UNCHANGED <<categories, selectedCategoryKey, isEditingCategory, categoryForm>>

\* saveItem that tidies the entry it stores: the parts without a key go,
\* after the format was derived
saveItemDropsBlankParts ==
  /\ IF ~ItemFormValid(itemForm)
     THEN UNCHANGED <<itemDefinitions, itemForm, isEditingItem>>
     ELSE LET saved == [itemForm EXCEPT !.format = generatedFormat]
              tidy == [saved EXCEPT !.parts = SelectSeq(@, LAMBDA q : q.key # "")]
          IN
          /\ itemForm' = saved
          /\ itemDefinitions' = ObjSet(itemDefinitions, saved.key, tidy)
          /\ isEditingItem' = FALSE
  /\ UNCHANGED <<categories, selectedCategoryKey, isEditingCategory, categoryForm>>

\* saveItem that keeps one entry per category and key: a draft whose key is
\* in the registry under another category gets a second entry
saveItemPerCategory ==
  /\ IF ~ItemFormValid(itemForm)
     THEN UNCHANGED <<itemDefinitions, itemForm, isEditingItem>>
     ELSE LET saved == [itemForm EXCEPT !.format = generatedFormat] IN
          /\ itemForm' = saved
          /\ itemDefinitions' =
               IF /\ ObjHas(itemDefinitions, saved.key)
                  /\ ObjGet(itemDefinitions, saved.key).category # saved.category
               THEN Append(itemDefinitions, [k |-> saved.key, v |-> saved])
               ELSE ObjSet(itemDefinitions, saved.key, saved)
          /\ isEditingItem' = FALSE
  /\ UNCHANGED <<categories, selectedCategoryKey, isEditingCategory, categoryForm>>

saveItem ==
  /\ IF ~ItemFormValid(itemForm)
     THEN UNCHANGED <<itemDefinitions, itemForm, isEditingItem>>
     ELSE LET saved == [itemForm EXCEPT !.format = generatedFormat] IN
          /\ itemForm' = saved
          /\ itemDefinitions' = ObjSet(itemDefinitions, saved.key, saved)
          /\ isEditingItem' = FALSE
  /\ UNCHANGED <<categories, selectedCategoryKey, isEditingCategory, categoryForm>>

\* deleteItem on a list of entries, splice(findIndex(key), 1): for a key
\* that is not there the index is -1 and the last entry goes
deleteItemSplice(key, confirmed) ==
  /\ IF confirmed
     THEN itemDefinitions' =
            IF ObjHas(itemDefinitions, key) THEN ObjDelete(itemDefinitions, key)
            ELSE SubSeq(itemDefinitions, 1, Len(itemDefinitions) - 1)
     ELSE UNCHANGED itemDefinitions
  /\ UNCHANGED <<categories, selectedCategoryKey, isEditingCategory,
                 isEditingItem, categoryForm, itemForm>>

\* deleteItem(key); confirmed is the operator's answer to confirm()
deleteItem(key, confirmed) ==
  /\ IF confirmed
     THEN itemDefinitions' = ObjDelete(itemDefinitions, key)
     ELSE UNCHANGED itemDefinitions
  /\ UNCHANGED <<categories, selectedCategoryKey, isEditingCategory,
                 isEditingItem, categoryForm, itemForm>>

\* the overlay, the x button and the cancel button of the item drawer
cancelItem ==
  /\ isEditingItem' = FALSE
  /\ UNCHANGED <<categories, itemDefinitions, selectedCategoryKey,
                 isEditingCategory, categoryForm, itemForm>>

----------------------------------------------------------------------------
(* Parts operations (indices are those of the source, from 0)              *)

\* the part addPart pushes
NewPart == [key |-> "", label |-> "", data_type |-> "string"]

\* addPart with unshift: the new part goes to the front
addPartFirst ==
  /\ Len(itemForm.parts) < MaxParts
  /\ itemForm' = [itemForm EXCEPT !.parts = <<NewPart>> \o @]
  /\ UNCHANGED <<categories, itemDefinitions, selectedCategoryKey,
                 isEditingCategory, isEditingItem, categoryForm>>

addPart ==
  /\ Len(itemForm.parts) < MaxParts
  /\ itemForm' = [itemForm EXCEPT !.parts = Append(@, NewPart)]
  /\ UNCHANGED <<categories, itemDefinitions, selectedCategoryKey,
                 isEditingCategory, isEditingItem, categoryForm>>

\* splice(index) without the count: every part from index on goes
SpliceRest(parts, index) ==
  LET start == IF index > Len(parts) THEN Len(parts) ELSE index
  IN  SubSeq(parts, 1, start)

\* parts.splice(index, 1), index >= 0: a start beyond the end is the end
Splice1(parts, index) ==
  LET start == IF index > Len(parts) THEN Len(parts) ELSE index
  IN  SubSeq(parts, 1, start) \o SubSeq(parts, start + 2, Len(parts))

removePart(index) ==
  /\ itemForm' = [itemForm EXCEPT !.parts = Splice1(@, index)]
  /\ UNCHANGED <<categories, itemDefinitions, selectedCategoryKey,
                 isEditingCategory, isEditingItem, categoryForm>>

\* MovedParts without the temp: the second assignment reads the part the
\* first has just written
MovedPartsNoTemp(parts, index, direction) ==
  LET newIndex == index + direction IN
  IF newIndex < 0 \/ newIndex >= Len(parts)
  THEN parts
  ELSE [parts EXCEPT ![index + 1] = parts[newIndex + 1]]

\* the body of movePart on the parts array, 0 <= index < parts.length
MovedParts(parts, index, direction) ==
  LET newIndex == index + direction IN
  IF newIndex < 0 \/ newIndex >= Len(parts)
  THEN parts
  ELSE [parts EXCEPT ![index + 1] = parts[newIndex + 1],
                     ![newIndex + 1] = parts[index + 1]]

movePart(index, direction) ==
  /\ itemForm' = [itemForm EXCEPT !.parts = MovedParts(@, index, direction)]
  /\ UNCHANGED <<categories, itemDefinitions, selectedCategoryKey,
                 isEditingCategory, isEditingItem, categoryForm>>

\* SetPartKey on a draft that shares its parts with the committed entry
\* of its key (editItem and saveItem without parts.map): the entry's part
\* changes with the draft's
SetPartKeyShared(index, k) ==
  /\ itemForm' = [itemForm EXCEPT !.parts[index + 1].key = k]
  /\ itemDefinitions' =
       IF /\ ObjHas(itemDefinitions, itemForm.key)
          /\ index < Len(ObjGet(itemDefinitions, itemForm.key).parts)
       THEN ObjSet(itemDefinitions, itemForm.key,
                   [ObjGet(itemDefinitions, itemForm.key) EXCEPT
                      !.parts[index + 1].key = k])
       ELSE itemDefinitions
  /\ UNCHANGED <<categories, selectedCategoryKey,
                 isEditingCategory, isEditingItem, categoryForm>>

\* v-model="part.key" of the part row index
SetPartKey(index, k) ==
  /\ itemForm' = [itemForm EXCEPT !.parts[index + 1].key = k]
  /\ UNCHANGED <<categories, itemDefinitions, selectedCategoryKey,
                 isEditingCategory, isEditingItem, categoryForm>>

\* v-model="part.label" of the part row index
SetPartLabel(index, l) ==
  /\ itemForm' = [itemForm EXCEPT !.parts[index + 1].label = l]
  /\ UNCHANGED <<categories, itemDefinitions, selectedCategoryKey,
                 isEditingCategory, isEditingItem, categoryForm>>

\* v-model="part.data_type" of the part row index
SetPartDataType(index, t) ==
  /\ itemForm' = [itemForm EXCEPT !.parts[index + 1].data_type = t]
  /\ UNCHANGED <<categories, itemDefinitions, selectedCategoryKey,
                 isEditingCategory, isEditingItem, categoryForm>>

----------------------------------------------------------------------------
(* The operator's steps: a handler called with arguments the page can     *)
(* pass (and, for the handlers that take a key or an index, any key or     *)
(* index of the input sets). With h the step records itself in lastOp;     *)
(* without, it clears lastOp. Every step keeps insertionOrder.             *)

Did(h, name, arg) ==
  /\ lastOp' = IF h THEN [op |-> name, arg |-> arg, again |-> lastOp.op = name]
                ELSE NoOp
  /\ insertionOrder' =
       LET kept == SelectSeq(insertionOrder, LAMBDA k : ObjHas(categories', k))
           created == ObjKeys(categories') \ ObjKeys(categories)
       IN  IF created = {} THEN kept
           ELSE Append(kept, CHOOSE k \in created : TRUE)

\* the keys of the listed categories
ListedCategoryKeys == {sortedCategories[i].key : i \in 1..Len(sortedCategories)}

\* the rows of the parts list
PartRows == 0..(Len(itemForm.parts) - 1)

OpenNewCategoryStep(h) == openNewCategory /\ Did(h, "openNewCategory", <<>>)

EditCategoryStep(h) ==
  \E i \in 1..Len(sortedCategories) :
    editCategory(sortedCategories[i]) /\ Did(h, "editCategory", <<sortedCategories[i].key>>)

SetCategoryKeyStep(h) ==
  \E k \in CategoryKeyInputs : SetCategoryKey(k) /\ Did(h, "edit", <<>>)

\* the operator types a numeric key
SetCategoryIndexKeyStep(h) ==
  \E k \in IndexKeyInputs : SetCategoryKey(k) /\ Did(h, "edit", <<>>)

SetCategoryNameStep(h) ==
  \E n \in NameInputs : SetCategoryName(n) /\ Did(h, "edit", <<>>)

SetCategoryScopeStep(h) ==
  \E s \in {"character", "shared"} : SetCategoryScope(s) /\ Did(h, "edit", <<>>)

SetCategoryOrderStep(h) ==
  \E o \in 0..MaxOrder : SetCategoryOrder(o) /\ Did(h, "edit", <<>>)

SaveCategoryStep(h) == saveCategory /\ Did(h, "saveCategory", <<>>)

\* saveCategory; arg: whether the category dialog was open (the draft is
\* one editCategory or openNewCategory filled) and whether the registry
\* held the draft's key when saveCategory was called
SaveOpenedCategoryStep(h) ==
  /\ saveCategory
  /\ Did(h, "saveCategory",
         <<isEditingCategory, ObjHas(categories, categoryForm.key)>>)

\* arg: key, the operator's answer, whether the registry held key when
\* deleteCategory was called and whether key was then the selection
DeleteCategoryStep(h) ==
  \E key \in CategoryKeyInputs \cup ListedCategoryKeys, confirmed \in BOOLEAN :
    /\ deleteCategory(key, confirmed)
    /\ Did(h, "deleteCategory",
           <<key, confirmed, ObjHas(categories, key), selectedCategoryKey = key>>)

CancelCategoryStep(h) == cancelCategory /\ Did(h, "cancelCategory", <<>>)

SelectCategoryStep(h) ==
  \E k \in {Null} \cup ListedCategoryKeys :
    selectCategory(k) /\ Did(h, "selectCategory", <<>>)

OpenNewItemStep(h) == openNewItem /\ Did(h, "openNewItem", <<>>)

EditItemStep(h) ==
  \E i \in 1..Len(filteredItems) :
    editItem(filteredItems[i]) /\ Did(h, "editItem", <<filteredItems[i].key>>)

SetItemKeyStep(h) ==
  \E k \in ItemKeyInputs : SetItemKey(k) /\ Did(h, "edit", <<>>)

SetItemNameStep(h) ==
  \E n \in NameInputs : SetItemName(n) /\ Did(h, "edit", <<>>)

\* the select offers the empty option and one option per listed category
SetItemCategoryStep(h) ==
  \E c \in {""} \cup ListedCategoryKeys : SetItemCategory(c) /\ Did(h, "edit", <<>>)

SetItemEntryTypeStep(h) ==
  \E t \in {"Single", "List"} : SetItemEntryType(t) /\ Did(h, "edit", <<>>)

SetItemSeparatorStep(h) ==
  \E s \in SeparatorInputs : SetItemSeparator(s) /\ Did(h, "edit", <<>>)

SetItemSecondarySeparatorStep(h) ==
  \E s \in SecondarySeparatorInputs :
    SetItemSecondarySeparator(s) /\ Did(h, "edit", <<>>)

SetItemDescriptionStep(h) ==
  \E d \in DescriptionInputs : SetItemDescription(d) /\ Did(h, "edit", <<>>)

\* arg: the format the draft carried when saveItem was called, and the
\* category of the entry the registry then held under the draft's key
SaveItemStep(h) ==
  /\ saveItem
  /\ Did(h, "saveItem",
         <<itemForm.format,
           IF ObjHas(itemDefinitions, itemForm.key)
           THEN ObjGet(itemDefinitions, itemForm.key).category ELSE Undefined>>)

\* saveItem; arg: as for SaveItemStep, and whether the item dialog was open
\* (the draft is one editItem or openNewItem filled) when saveItem was called
SaveOpenedItemStep(h) ==
  /\ saveItem
  /\ Did(h, "saveItem",
         <<itemForm.format,
           IF ObjHas(itemDefinitions, itemForm.key)
           THEN ObjGet(itemDefinitions, itemForm.key).category ELSE Undefined,
           isEditingItem>>)

\* arg: key, the operator's answer and whether the registry held key when
\* deleteItem was called
DeleteItemStep(h) ==
  \E key \in ItemKeyInputs, confirmed \in BOOLEAN :
    /\ deleteItem(key, confirmed)
    /\ Did(h, "deleteItem", <<key, confirmed, ObjHas(itemDefinitions, key)>>)

CancelItemStep(h) == cancelItem /\ Did(h, "cancelItem", <<>>)

AddPartStep(h) == addPart /\ Did(h, "addPart", <<>>)

\* arg: index and the number of parts when removePart was called
RemovePartStep(h) ==
  \E index \in 0..MaxParts :
    removePart(index) /\ Did(h, "removePart", <<index, Len(itemForm.parts)>>)

MovePartStep(h) ==
  \E index \in PartRows, direction \in {-1, 1} :
    movePart(index, direction) /\ Did(h, "movePart", <<index, direction>>)

SetPartKeyStep(h) ==
  \E index \in PartRows, k \in PartKeyInputs :
    SetPartKey(index, k) /\ Did(h, "edit", <<>>)

SetPartLabelStep(h) ==
  \E index \in PartRows, l \in LabelInputs :
    SetPartLabel(index, l) /\ Did(h, "edit", <<>>)

SetPartDataTypeStep(h) ==
  \E index \in PartRows, t \in {"string", "number", "boolean"} :
    SetPartDataType(index, t) /\ Did(h, "edit", <<>>)

----------------------------------------------------------------------------
(* The program: every handler, from the state after construction. The     *)
(* properties below are checked under the specifications that follow it:   *)
(* each takes the handlers its properties are about, from a state the      *)
(* program reaches.                                                        *)

Next ==
  \/ OpenNewCategoryStep(TRUE) \/ EditCategoryStep(TRUE)
  \/ SetCategoryKeyStep(TRUE) \/ SetCategoryIndexKeyStep(TRUE)
  \/ SetCategoryNameStep(TRUE)
  \/ SetCategoryScopeStep(TRUE) \/ SetCategoryOrderStep(TRUE)
  \/ SaveCategoryStep(TRUE) \/ DeleteCategoryStep(TRUE)
  \/ CancelCategoryStep(TRUE) \/ SelectCategoryStep(TRUE)
  \/ OpenNewItemStep(TRUE) \/ EditItemStep(TRUE)
  \/ SetItemKeyStep(TRUE) \/ SetItemNameStep(TRUE) \/ SetItemCategoryStep(TRUE)
  \/ SetItemEntryTypeStep(TRUE) \/ SetItemSeparatorStep(TRUE)
  \/ SetItemSecondarySeparatorStep(TRUE) \/ SetItemDescriptionStep(TRUE)
  \/ SaveItemStep(TRUE) \/ DeleteItemStep(TRUE) \/ CancelItemStep(TRUE)
  \/ AddPartStep(TRUE) \/ RemovePartStep(TRUE) \/ MovePartStep(TRUE)
  \/ SetPartKeyStep(TRUE) \/ SetPartLabelStep(TRUE) \/ SetPartDataTypeStep(TRUE)

Spec == Init /\ [][Next]_vars

----------------------------------------------------------------------------
(* The format generator: the item draft edited field by field while the   *)
(* category the draft names is saved with either scope and deleted.       *)

\* the category draft after the operator typed a key and a name into it
TypedCategoryForm == [InitialCategoryForm EXCEPT !.key = "CV", !.name = "N"]

InitFormat ==
  /\ categories = <<>>
  /\ itemDefinitions = <<>>
  /\ selectedCategoryKey = Null
  /\ isEditingCategory = FALSE
  /\ isEditingItem = FALSE
  /\ categoryForm = TypedCategoryForm
  /\ itemForm = InitialItemForm
  /\ lastOp = NoOp
  /\ insertionOrder = <<>>

NextFormat ==
  \/ SetCategoryScopeStep(FALSE) \/ SaveCategoryStep(FALSE)
  \/ DeleteCategoryStep(FALSE)
  \/ OpenNewItemStep(FALSE) \/ SetItemKeyStep(FALSE) \/ SetItemCategoryStep(FALSE)
  \/ SetItemEntryTypeStep(FALSE) \/ SetItemSeparatorStep(FALSE)
  \/ SetItemSecondarySeparatorStep(FALSE)
  \/ AddPartStep(FALSE) \/ RemovePartStep(FALSE) \/ MovePartStep(FALSE)
  \/ SetPartKeyStep(FALSE)

SpecFormat == InitFormat /\ [][NextFormat]_vars

----------------------------------------------------------------------------
(* The category registry: every handler of the category list and of the   *)
(* category drawer, from the state after construction.                     *)

NextCategory ==
  \/ OpenNewCategoryStep(FALSE) \/ EditCategoryStep(FALSE)
  \/ SetCategoryKeyStep(FALSE) \/ SetCategoryNameStep(FALSE)
  \/ SetCategoryScopeStep(FALSE) \/ SetCategoryOrderStep(FALSE)
  \/ SaveCategoryStep(TRUE) \/ DeleteCategoryStep(FALSE)
  \/ CancelCategoryStep(FALSE) \/ SelectCategoryStep(FALSE)

SpecCategory == Init /\ [][NextCategory]_vars

----------------------------------------------------------------------------
(* The two saves and their validation: key and name of both drafts typed  *)
(* and saved, from the state after construction.                           *)

NextSave ==
  \/ SetCategoryKeyStep(FALSE) \/ SetCategoryNameStep(FALSE)
  \/ SaveCategoryStep(TRUE)
  \/ SetItemKeyStep(FALSE) \/ SetItemNameStep(FALSE)
  \/ SaveItemStep(TRUE)

SpecSave == Init /\ [][NextSave]_vars

----------------------------------------------------------------------------
(* The item registry: items saved, reopened and saved again under another *)
(* key or category, while their category changes scope and is deleted.    *)

\* the item draft after the operator typed a name into it
TypedItemForm == [InitialItemForm EXCEPT !.name = "N"]

InitItem ==
  /\ categories = <<>>
  /\ itemDefinitions = <<>>
  /\ selectedCategoryKey = Null
  /\ isEditingCategory = FALSE
  /\ isEditingItem = FALSE
  /\ categoryForm = TypedCategoryForm
  /\ itemForm = TypedItemForm
  /\ lastOp = NoOp
  /\ insertionOrder = <<>>

NextItem ==
  \/ SetCategoryScopeStep(FALSE) \/ SaveCategoryStep(FALSE)
  \/ DeleteCategoryStep(FALSE)
  \/ SetItemKeyStep(FALSE) \/ SetItemCategoryStep(FALSE)
  \/ SaveItemStep(TRUE) \/ EditItemStep(FALSE) \/ DeleteItemStep(FALSE)
  \/ CancelItemStep(FALSE)

SpecItem == InitItem /\ [][NextItem]_vars

----------------------------------------------------------------------------
(* Upsert: both drafts saved again and again under the same and under     *)
(* other keys, the item draft under either category, while a category is   *)
(* selected.                                                               *)

NextUpsert ==
  \/ SetCategoryKeyStep(FALSE) \/ SetCategoryOrderStep(FALSE)
  \/ SaveCategoryStep(TRUE)
  \/ SetItemKeyStep(FALSE) \/ SetItemCategoryStep(FALSE)
  \/ SaveItemStep(TRUE)

SpecUpsert == InitItem /\ [][NextUpsert]_vars

----------------------------------------------------------------------------
(* Deletion and selection: categories and items saved, a category         *)
(* selected, and entries of both registries deleted, confirmed or not,     *)
(* present or not.                                                         *)

NextDelete ==
  \/ SetCategoryKeyStep(FALSE) \/ SaveCategoryStep(FALSE)
  \/ DeleteCategoryStep(TRUE) \/ SelectCategoryStep(FALSE)
  \/ SetItemKeyStep(FALSE) \/ SaveItemStep(FALSE) \/ DeleteItemStep(TRUE)
  \/ EditCategoryStep(FALSE) \/ EditItemStep(FALSE) \/ CancelItemStep(FALSE)

SpecDelete == InitItem /\ [][NextDelete]_vars

----------------------------------------------------------------------------
(* Items and the categories they name: items saved under either category  *)
(* and under none, a category selected, categories deleted.                *)

NextDangling ==
  \/ SetCategoryKeyStep(FALSE) \/ SaveCategoryStep(FALSE)
  \/ DeleteCategoryStep(TRUE) \/ SelectCategoryStep(FALSE)
  \/ SetItemKeyStep(FALSE) \/ SetItemCategoryStep(FALSE)
  \/ SaveItemStep(FALSE)

SpecDangling == InitItem /\ [][NextDangling]_vars

----------------------------------------------------------------------------
(* The drafts and the registries: committed entries opened for editing,   *)
(* the drafts changed, cancelled and saved.                                *)

\* the item draft after the operator typed a key and a name into it
KeyedItemForm == [InitialItemForm EXCEPT !.key = "HP", !.name = "N"]

InitDraft ==
  /\ categories = <<>>
  /\ itemDefinitions = <<>>
  /\ selectedCategoryKey = Null
  /\ isEditingCategory = FALSE
  /\ isEditingItem = FALSE
  /\ categoryForm = TypedCategoryForm
  /\ itemForm = KeyedItemForm
  /\ lastOp = NoOp
  /\ insertionOrder = <<>>

NextDraft ==
  \/ EditCategoryStep(FALSE) \/ SetCategoryScopeStep(FALSE)
  \/ CancelCategoryStep(FALSE) \/ SaveCategoryStep(TRUE)
  \/ EditItemStep(FALSE) \/ CancelItemStep(FALSE) \/ SaveItemStep(TRUE)
  \/ AddPartStep(FALSE) \/ RemovePartStep(FALSE) \/ MovePartStep(FALSE)
  \/ SetPartKeyStep(FALSE)

SpecDraft == InitDraft /\ [][NextDraft]_vars

----------------------------------------------------------------------------
(* The order of the category list: categories saved under text keys and   *)
(* under a numeric key, with either sort weight, saved again and deleted.  *)

NextOrder ==
  \/ SetCategoryKeyStep(FALSE) \/ SetCategoryIndexKeyStep(FALSE)
  \/ SetCategoryOrderStep(FALSE) \/ SetCategoryScopeStep(FALSE)
  \/ SaveCategoryStep(TRUE) \/ DeleteCategoryStep(FALSE)

SpecOrder == InitFormat /\ [][NextOrder]_vars

----------------------------------------------------------------------------
(* The parts of the item draft: parts added, typed into, moved up and     *)
(* down and removed, from the state after construction.                    *)

NextParts ==
  \/ OpenNewItemStep(FALSE) \/ AddPartStep(FALSE) \/ RemovePartStep(TRUE)
  \/ MovePartStep(TRUE)
  \/ SetPartKeyStep(FALSE) \/ SetPartLabelStep(FALSE)

SpecParts == Init /\ [][NextParts]_vars

----------------------------------------------------------------------------
(* Parts added to a draft next to committed entries: the item saved,      *)
(* opened again, parts labelled, added and removed.                        *)

NextAppend ==
  \/ SaveCategoryStep(FALSE) \/ SaveItemStep(FALSE) \/ EditItemStep(FALSE)
  \/ AddPartStep(TRUE) \/ RemovePartStep(FALSE) \/ SetPartLabelStep(FALSE)

SpecAppend == InitDraft /\ [][NextAppend]_vars

----------------------------------------------------------------------------
(* The stored format: an item saved with more or fewer parts, as Single   *)
(* and as List, with and without a category, opened and saved again,       *)
(* while its category changes scope and is deleted.                        *)

NextStored ==
  \/ SetCategoryScopeStep(FALSE) \/ SaveCategoryStep(TRUE)
  \/ DeleteCategoryStep(TRUE)
  \/ SetItemCategoryStep(FALSE) \/ SetItemEntryTypeStep(FALSE)
  \/ AddPartStep(FALSE) \/ RemovePartStep(FALSE)
  \/ SaveItemStep(TRUE) \/ EditItemStep(FALSE)

SpecStored == InitDraft /\ [][NextStored]_vars

----------------------------------------------------------------------------
(* The scope token of stored formats: two items saved under a category    *)
(* whose scope is changed and saved between their saves, and deleted.      *)

NextScope ==
  \/ SetCategoryScopeStep(FALSE) \/ SaveCategoryStep(TRUE)
  \/ DeleteCategoryStep(TRUE)
  \/ SetItemKeyStep(FALSE) \/ SetItemCategoryStep(FALSE)
  \/ SaveItemStep(TRUE) \/ EditItemStep(FALSE)

SpecScope == InitItem /\ [][NextScope]_vars

----------------------------------------------------------------------------
(* Committed entries opened for editing and saved under another key:      *)
(* categories and items saved, opened again, their key retyped, saved.     *)

NextRename ==
  \/ EditCategoryStep(FALSE) \/ SetCategoryKeyStep(FALSE)
  \/ SaveOpenedCategoryStep(TRUE)
  \/ EditItemStep(FALSE) \/ SetItemKeyStep(FALSE) \/ SetItemCategoryStep(FALSE)
  \/ SaveOpenedItemStep(TRUE)

SpecRename == InitItem /\ [][NextRename]_vars

----------------------------------------------------------------------------
(* Properties of the format generator (under SpecFormat)                   *)

\* the draft has a key and a category: the generator does not return ""
HasKeyAndCategory == itemForm.key # "" /\ itemForm.category # ""

\* the format of the draft with the value part vp
FormatWith(vp) ==
  "[" \o scopeToken(itemForm.category, categories) \o "^" \o itemForm.category
      \o "|" \o itemForm.key \o "::" \o vp \o "]"

StartsWith(s, prefix) ==
  Len(s) >= Len(prefix) /\ SubSeq(s, 1, Len(prefix)) = prefix

\* the draft's category is in the registry with this scope
CategoryHasScope(scope) ==
  /\ ObjHas(categories, itemForm.category)
  /\ ObjGet(categories, itemForm.category).scope = scope

\* the keys of the parts each wrapped in braces, joined with sep
RECURSIVE BracedKeys(_, _)
BracedKeys(parts, sep) ==
  IF Len(parts) = 1
  THEN "{" \o parts[1].key \o "}"
  ELSE "{" \o parts[1].key \o "}" \o sep \o BracedKeys(Tail(parts), sep)

\* C1: for a draft with a key and a category the format is
\* "[" + scope token + "^" + category + "|" + key + "::" + value part + "]"
\* with the raw category and key; a Single item HP with the one part value
\* in the character category CV has the format [{角色}^CV|HP::{value}].
C1_FormatAssembly ==
  /\ HasKeyAndCategory =>
       \E token \in {"ST", RoleToken} :
         generatedFormat =
           "[" \o token \o "^" \o itemForm.category \o "|" \o itemForm.key
               \o "::" \o valuePart(itemForm) \o "]"
  /\ ( /\ itemForm.key = "HP" /\ itemForm.category = "CV"
       /\ CategoryHasScope("character")
       /\ itemForm.entry_type = "Single"
       /\ Len(itemForm.parts) = 1 /\ itemForm.parts[1].key = "value" )
     => generatedFormat = "[{JueSe}^CV|HP::{value}]"

C1_Witness ==
  /\ itemForm.key = "HP" /\ itemForm.category = "CV"
  /\ CategoryHasScope("character")
  /\ itemForm.entry_type = "Single" /\ itemForm.separator = "|"
  /\ Len(itemForm.parts) = 1 /\ itemForm.parts[1].key = "value"
  /\ generatedFormat = "[{JueSe}^CV|HP::{value}]"

\* C2: the format is "" when the draft's key is empty or its category is
\* empty, whatever the other fields and the registry hold, and is not ""
\* in every other case.
C2_EmptyIffNoKeyOrCategory ==
  (generatedFormat = "") <=> (itemForm.key = "" \/ itemForm.category = "")

C2_Witness ==
  /\ itemForm.key # "" /\ itemForm.category = ""
  /\ itemForm.entry_type = "List" /\ Len(itemForm.parts) = 2
  /\ categories # <<>>
  /\ generatedFormat = ""

\* C3: the scope token is ST exactly when the draft's category is in the
\* registry with scope shared, and {角色} otherwise: for a character
\* category and for a category that is not (or no longer) in the registry.
C3_ScopeToken ==
  HasKeyAndCategory =>
    /\ StartsWith(generatedFormat, "[ST^") <=> CategoryHasScope("shared")
    /\ StartsWith(generatedFormat, "[" \o RoleToken \o "^")
         <=> ~CategoryHasScope("shared")

\* the draft names the category CV, which was deleted from the registry
C3_Witness ==
  /\ HasKeyAndCategory
  /\ itemForm.category = "CV" /\ ~ObjHas(categories, "CV")
  /\ StartsWith(generatedFormat, "[{JueSe}^CV|")

\* C4: for a draft without parts the value part is "{" + key + "}", for
\* Single and for List alike.
C4_EmptyPartsValuePart ==
  (HasKeyAndCategory /\ Len(itemForm.parts) = 0)
    => generatedFormat = FormatWith("{" \o itemForm.key \o "}")

C4_Witness ==
  /\ HasKeyAndCategory /\ Len(itemForm.parts) = 0
  /\ itemForm.entry_type = "List"
  /\ generatedFormat = FormatWith("{" \o itemForm.key \o "}")

\* C5: for a Single draft with at least one part the value part is the
\* parts' keys in braces, in part order, joined with separator;
\* secondary_separator does not enter it.
C5_SingleValuePart ==
  (HasKeyAndCategory /\ itemForm.entry_type = "Single" /\ Len(itemForm.parts) >= 1)
    => /\ generatedFormat = FormatWith(BracedKeys(itemForm.parts, itemForm.separator))
       /\ Len(itemForm.parts) = 2 =>
            generatedFormat =
              FormatWith("{" \o itemForm.parts[1].key \o "}" \o itemForm.separator
                         \o "{" \o itemForm.parts[2].key \o "}")

C5_Witness ==
  /\ HasKeyAndCategory /\ itemForm.entry_type = "Single"
  /\ Len(itemForm.parts) = 2
  /\ itemForm.parts[1].key = "max" /\ itemForm.parts[2].key = "value"
  /\ itemForm.separator = "|" /\ itemForm.secondary_separator = "#"
  /\ generatedFormat = FormatWith("{max}|{value}")

\* C6 as claimed: for a List draft with exactly one part p and separator
\* "|" the value part is "{" + p.key + "}|...", whatever p.key is.
C6_AsClaimed ==
  (HasKeyAndCategory /\ itemForm.entry_type = "List"
     /\ Len(itemForm.parts) = 1 /\ itemForm.separator = "|")
    => generatedFormat = FormatWith("{" \o itemForm.parts[1].key \o "}|...")

\* C6 amended: for a List draft with exactly one part p the value part is
\* "{" + p.key + "}" + separator + "..." when p.key is not empty, and
\* "{item}" + separator + "..." when p.key is empty.
C6_OnePartList ==
  (HasKeyAndCategory /\ itemForm.entry_type = "List" /\ Len(itemForm.parts) = 1)
    => generatedFormat =
         FormatWith((IF itemForm.parts[1].key = "" THEN "{item}"
                     ELSE "{" \o itemForm.parts[1].key \o "}")
                    \o itemForm.separator \o "...")

\* the one part is the part addPart pushed, with its empty key
C6_Witness ==
  /\ HasKeyAndCategory /\ itemForm.entry_type = "List"
  /\ itemForm.parts = <<NewPart>> /\ itemForm.separator = "|"
  /\ generatedFormat = FormatWith("{item}|...")

\* C7: for a List draft with more than one part the value part is the
\* parts' keys in braces, in part order, joined with secondary_separator
\* ("@" when that is empty), then separator, then "...".
C7_ListValuePart ==
  (HasKeyAndCategory /\ itemForm.entry_type = "List" /\ Len(itemForm.parts) > 1)
    => LET sec == IF itemForm.secondary_separator = "" THEN "@"
                  ELSE itemForm.secondary_separator
       IN  /\ generatedFormat =
                FormatWith(BracedKeys(itemForm.parts, sec)
                           \o itemForm.separator \o "...")
           /\ ( Len(itemForm.parts) = 2 /\ itemForm.separator = "|"
                /\ itemForm.secondary_separator = "@" )
              => generatedFormat =
                   FormatWith("{" \o itemForm.parts[1].key \o "}@{"
                              \o itemForm.parts[2].key \o "}|...")

C7_Witness ==
  /\ HasKeyAndCategory /\ itemForm.entry_type = "List"
  /\ Len(itemForm.parts) = 2
  /\ itemForm.parts[1].key = "value" /\ itemForm.parts[2].key = "max"
  /\ itemForm.separator = "," /\ itemForm.secondary_separator = "#"
  /\ generatedFormat = FormatWith("{value}#{max},...")

----------------------------------------------------------------------------
(* Properties of the saves                                                 *)

\* the step just taken was a call of the handler op
JustRan(op) == lastOp.op = op

\* the committed item stored under the draft's key
StoredItem == ObjGet(itemDefinitions, itemForm.key)

\* saveItem took the draft: key and name hold more than blanks. saveItem
\* changes neither field, so this reads the same before and after the call
ItemDraftAccepted == Trim(itemForm.key) # "" /\ Trim(itemForm.name) # ""

\* C8 (under SpecItem): an accepted saveItem stores an entry whose format is
\* the generator's output for the draft and the category registry as they
\* are at the save, whatever format the draft carried before. saveItem
\* changes no field the generator reads, so generatedFormat right after
\* the save is its value at the save.
C8_StoredFormatIsFresh ==
  (JustRan("saveItem") /\ ItemDraftAccepted)
    => /\ ObjHas(itemDefinitions, itemForm.key)
       /\ StoredItem.format = generatedFormat
       /\ StoredItem.format = generateFormat(StoredItem, categories)

\* the draft came from editItem of another item and carried that item's
\* format into the save
C8_Witness ==
  /\ JustRan("saveItem") /\ ItemDraftAccepted
  /\ \E i \in 1..Len(itemDefinitions) :
       /\ itemDefinitions[i].k # itemForm.key
       /\ itemDefinitions[i].v.format = lastOp.arg[1]
  /\ lastOp.arg[1] \notin {Undefined, "", generatedFormat}
  /\ generatedFormat # ""
  /\ StoredItem.format = generatedFormat

\* C9 (under SpecSave): a saveCategory or saveItem whose draft has an empty
\* key or an empty name changes neither registry and neither draft, the
\* item draft's format included.
C9_RejectedSaveIsNoOp ==
  [][ ( \/ lastOp'.op = "saveCategory"
           /\ (categoryForm.key = "" \/ categoryForm.name = "")
        \/ lastOp'.op = "saveItem"
           /\ (itemForm.key = "" \/ itemForm.name = "") )
      => UNCHANGED <<categories, itemDefinitions, categoryForm, itemForm,
                     isEditingCategory, isEditingItem>> ]_vars

\* saveItem was called on a draft with a name and no key that never got a
\* format, next to registries that hold entries
C9_Witness ==
  /\ JustRan("saveItem")
  /\ itemForm.key = "" /\ itemForm.name = "N" /\ itemForm.format = Undefined
  /\ categories # <<>>
  /\ ~ObjHas(itemDefinitions, "")

\* the entries of listSorted() with the key of the category draft
ListedUnderDraftKey ==
  {i \in 1..Len(sortedCategories) : sortedCategories[i].key = categoryForm.key}

\* C10 as claimed (under SpecCategory): after saveCategory of a draft c with
\* non-empty key and non-empty name, listSorted() has exactly one entry with
\* the key of c, and it equals c.
C10_AsClaimed ==
  (JustRan("saveCategory") /\ categoryForm.key # "" /\ categoryForm.name # "")
    => /\ Cardinality(ListedUnderDraftKey) = 1
       /\ \A i \in ListedUnderDraftKey : sortedCategories[i] = categoryForm

\* C10 amended: the same for a draft c whose key and name each hold a
\* character that is not a blank.
C10_SavedCategoryListedOnce ==
  (JustRan("saveCategory") /\ Trim(categoryForm.key) # ""
     /\ Trim(categoryForm.name) # "")
    => /\ Cardinality(ListedUnderDraftKey) = 1
       /\ \A i \in ListedUnderDraftKey : sortedCategories[i] = categoryForm

\* the save replaced one of two entries, and the saved entry sorts last
C10_Witness ==
  /\ JustRan("saveCategory")
  /\ Trim(categoryForm.key) # "" /\ Trim(categoryForm.name) # ""
  /\ Len(categories) = 2
  /\ categories[1].k = categoryForm.key
  /\ sortedCategories[2] = categoryForm
  /\ categoryForm.scope = "shared"

----------------------------------------------------------------------------
(* Properties of upsert (under SpecUpsert)                                 *)

\* the places of the registry obj that hold an entry under key
EntriesUnder(obj, key) == {i \in 1..Len(obj) : obj[i].k = key}

\* C11: a save that directly follows a save of the same valid draft (the
\* category draft, or the item draft) leaves the category registry and the
\* item registry as the first save left them: the same entries in the same
\* iteration order, with the same stored format.
C11_UpsertIdempotent ==
  [][ /\ ( /\ lastOp.op = "saveCategory" /\ lastOp'.op = "saveCategory"
           /\ CategoryFormValid(categoryForm) )
         => UNCHANGED <<categories, itemDefinitions>>
      /\ ( /\ lastOp.op = "saveItem" /\ lastOp'.op = "saveItem"
           /\ ItemFormValid(itemForm) )
         => UNCHANGED <<categories, itemDefinitions>> ]_vars

\* the item draft was saved twice in a row; the first save had replaced the
\* first of two entries and given it a format it did not have
C11_Witness ==
  /\ JustRan("saveItem") /\ lastOp.again /\ ItemDraftAccepted
  /\ Len(itemDefinitions) = 2 /\ itemDefinitions[1].k = itemForm.key
  /\ StoredItem.format # "" /\ StoredItem.format = generatedFormat
  /\ lastOp.arg[1] = StoredItem.format

\* C12: an accepted save under a key that is in the registry puts the draft
\* in the place of that entry, field by field (for an item with the format
\* derived at the save), and leaves the number of entries and every other
\* entry as they were; an item draft with key K and category B saved over an
\* item K of category A leaves one item K, of category B, which the list
\* filtered by any other category does not show.
C12_SaveReplacesEntry ==
  [][ /\ ( /\ lastOp'.op = "saveCategory" /\ CategoryFormValid(categoryForm)
           /\ ObjHas(categories, categoryForm.key) )
         => /\ Len(categories') = Len(categories)
            /\ \A i \in 1..Len(categories) :
                 categories'[i] =
                   IF categories[i].k = categoryForm.key
                   THEN [k |-> categoryForm.key, v |-> categoryForm]
                   ELSE categories[i]
      /\ ( /\ lastOp'.op = "saveItem" /\ ItemFormValid(itemForm)
           /\ ObjHas(itemDefinitions, itemForm.key) )
         => /\ Len(itemDefinitions') = Len(itemDefinitions)
            /\ \A i \in 1..Len(itemDefinitions) :
                 itemDefinitions'[i] =
                   IF itemDefinitions[i].k = itemForm.key
                   THEN [k |-> itemForm.key,
                         v |-> [itemForm EXCEPT
                                  !.format = generateFormat(itemForm, categories)]]
                   ELSE itemDefinitions[i]
            /\ Cardinality(EntriesUnder(itemDefinitions', itemForm.key)) = 1
            /\ \A A \in ObjKeys(categories) \ {itemForm.category} :
                 \A j \in 1..Len(filterItems(itemDefinitions', A)) :
                   filterItems(itemDefinitions', A)[j].key # itemForm.key ]_vars

\* item HP of category CV was replaced by the draft HP of category ST1,
\* next to item MP of category CV
C12_Witness ==
  /\ JustRan("saveItem") /\ ItemDraftAccepted
  /\ itemForm.key = "HP" /\ itemForm.category = "ST1" /\ lastOp.arg[2] = "CV"
  /\ ObjHas(categories, "CV") /\ ObjHas(categories, "ST1")
  /\ Len(itemDefinitions) = 2
  /\ StoredItem.category = "ST1"
  /\ Len(filterItems(itemDefinitions, "CV")) = 1
  /\ filterItems(itemDefinitions, "CV")[1].key = "MP"

----------------------------------------------------------------------------
(* Properties of the selection and of deletion                             *)

\* C13 (under SpecDelete): in every reachable state the selected category
\* filter is null or the key of an entry of the category registry; and
\* right after a confirmed deleteCategory(key) the filter is not key.
C13_SelectionInvariant ==
  /\ selectedCategoryKey = Null \/ ObjHas(categories, selectedCategoryKey)
  /\ (JustRan("deleteCategory") /\ lastOp.arg[2])
       => selectedCategoryKey # lastOp.arg[1]

\* the selected category was deleted while another category stays listed
C13_Witness ==
  /\ JustRan("deleteCategory")
  /\ lastOp.arg[2] /\ lastOp.arg[3] /\ lastOp.arg[4]
  /\ selectedCategoryKey = Null
  /\ ~ObjHas(categories, lastOp.arg[1])
  /\ Len(categories) = 1

\* the committed items that name the category key
ItemsNaming(items, key) == {i \in 1..Len(items) : items[i].v.category = key}

\* C14 (under SpecDangling): a confirmed deleteCategory(key) leaves the item
\* registry exactly as it was: the same item keys, and every item that
\* names key still names it, now as a dangling reference.
C14_DeleteCategoryNoCascade ==
  [][ (lastOp'.op = "deleteCategory" /\ lastOp'.arg[2])
      => /\ itemDefinitions' = itemDefinitions
         /\ ObjKeys(itemDefinitions') = ObjKeys(itemDefinitions)
         /\ ItemsNaming(itemDefinitions', lastOp'.arg[1])
              = ItemsNaming(itemDefinitions, lastOp'.arg[1])
         /\ ~ObjHas(categories', lastOp'.arg[1]) ]_vars

\* category CV was deleted under two items, one of which names it
C14_Witness ==
  /\ JustRan("deleteCategory") /\ lastOp.arg[1] = "CV"
  /\ lastOp.arg[2] /\ lastOp.arg[3]
  /\ ~ObjHas(categories, "CV")
  /\ Len(itemDefinitions) = 2
  /\ Cardinality(ItemsNaming(itemDefinitions, "CV")) = 1

----------------------------------------------------------------------------
(* Properties of the drafts (under SpecDraft)                              *)

\* C15: a step that is not a save (a change of a draft field or of a part,
\* addPart, removePart, movePart, a cancellation, the opening of an entry
\* for editing) changes no entry of either registry, whether the draft was
\* opened from a committed entry or has just been saved.
C15_DraftIndependence ==
  [][ lastOp'.op \notin {"saveCategory", "saveItem"}
      => UNCHANGED <<categories, itemDefinitions>> ]_vars

\* the draft was opened from the committed entry of its key and changed
\* since: it has three parts, the entry has one
C15_Witness ==
  /\ isEditingItem /\ lastOp = NoOp
  /\ ObjHas(itemDefinitions, itemForm.key)
  /\ Len(StoredItem.parts) = 1 /\ Len(itemForm.parts) = 3
  /\ StoredItem.parts[1].key = "value" /\ itemForm.parts[1].key = "max"
  /\ isEditingCategory /\ ObjHas(categories, categoryForm.key)
  /\ ObjGet(categories, categoryForm.key).scope # categoryForm.scope

----------------------------------------------------------------------------
(* Properties of the two lists                                             *)

\* the place of key in the sequence of keys
PlaceOf(keys, key) == CHOOSE i \in 1..Len(keys) : keys[i] = key

\* C16 as claimed (under SpecOrder): listSorted() holds every category of
\* the registry exactly once, in ascending order of the order field, and
\* two categories of equal order stand in the order in which their keys were
\* inserted into the registry.
C16_AsClaimed ==
  /\ Len(sortedCategories) = Len(categories)
  /\ \A e \in 1..Len(categories) :
       Cardinality({i \in 1..Len(sortedCategories) :
                      sortedCategories[i] = categories[e].v}) = 1
  /\ \A i, j \in 1..Len(sortedCategories) :
       i < j =>
         \/ sortedCategories[i].order < sortedCategories[j].order
         \/ /\ sortedCategories[i].order = sortedCategories[j].order
            /\ PlaceOf(insertionOrder, sortedCategories[i].key)
                 < PlaceOf(insertionOrder, sortedCategories[j].key)

\* the places of the item registry whose item names the selected category
PlacesSelected ==
  {i \in 1..Len(itemDefinitions) :
     itemDefinitions[i].v.category = selectedCategoryKey}

\* the j-th of them, in registry order
NthSelected(j) ==
  CHOOSE i \in PlacesSelected :
    Cardinality({m \in PlacesSelected : m < i}) = j - 1

\* C17 (under SpecDangling): without a selection listFiltered is every
\* committed item, with a selection exactly the committed items that name
\* the selected category, both in the iteration order of the registry; the
\* list for no selection holds the items whose category was deleted too.
C17_FilteredItems ==
  /\ selectedCategoryKey = Null =>
       /\ Len(filteredItems) = Len(itemDefinitions)
       /\ \A i \in 1..Len(itemDefinitions) : filteredItems[i] = itemDefinitions[i].v
  /\ selectedCategoryKey # Null =>
       /\ Len(filteredItems) = Cardinality(PlacesSelected)
       /\ \A j \in 1..Len(filteredItems) :
            filteredItems[j] = itemDefinitions[NthSelected(j)].v
  /\ \A i \in 1..Len(itemDefinitions) :
       filterItems(itemDefinitions, Null)[i] = itemDefinitions[i].v

\* of two items the second names the selected category, and the first a
\* category that was deleted
C17_Witness ==
  /\ selectedCategoryKey # Null
  /\ Len(itemDefinitions) = 2 /\ Len(filteredItems) = 1
  /\ filteredItems[1] = itemDefinitions[2].v
  /\ itemDefinitions[1].v.category # ""
  /\ ~ObjHas(categories, itemDefinitions[1].v.category)
  /\ Len(filterItems(itemDefinitions, Null)) = 2

----------------------------------------------------------------------------
(* Properties of the parts operations (under SpecParts)                    *)

\* how often the part p stands in parts
Occurrences(parts, p) == Cardinality({i \in 1..Len(parts) : parts[i] = p})

\* C18: movePart(index, direction) on a row index of the draft, with
\* direction -1 or +1: when index + direction is not a row the parts stay
\* as they are; otherwise the parts at index and index + direction change
\* places and every other row stays; the length and the multiset of the
\* parts are kept in both cases.
C18_MovePart ==
  [][ lastOp'.op = "movePart" =>
        LET index == lastOp'.arg[1]
            target == lastOp'.arg[1] + lastOp'.arg[2]
            old == itemForm.parts
            new == itemForm'.parts
        IN  /\ Len(new) = Len(old)
            /\ \A p \in {old[i] : i \in 1..Len(old)} \cup {new[i] : i \in 1..Len(new)} :
                 Occurrences(new, p) = Occurrences(old, p)
            /\ (target < 0 \/ target >= Len(old)) => new = old
            /\ (target >= 0 /\ target < Len(old)) =>
                 /\ new[index + 1] = old[target + 1]
                 /\ new[target + 1] = old[index + 1]
                 /\ \A i \in 1..Len(old) :
                      i \notin {index + 1, target + 1} => new[i] = old[i] ]_vars

\* the last of three parts with three keys was moved up
C18_Witness ==
  /\ JustRan("movePart") /\ lastOp.arg = <<2, -1>>
  /\ Len(itemForm.parts) = 3
  /\ itemForm.parts[1].key = "value" /\ itemForm.parts[2].key = "max"
  /\ itemForm.parts[3].key = ""

----------------------------------------------------------------------------
(* Properties of the two deletes (under SpecDelete)                        *)

\* C19: a deleteCategory or deleteItem whose confirmation the operator
\* declines changes nothing: both registries, the selected category filter,
\* both drafts and both drawers are as before.
C19_DeclinedDeleteIsNoOp ==
  [][ (lastOp'.op \in {"deleteCategory", "deleteItem"} /\ ~lastOp'.arg[2])
      => UNCHANGED <<categories, itemDefinitions, selectedCategoryKey,
                     categoryForm, itemForm, isEditingCategory, isEditingItem>> ]_vars

\* the operator declined to delete the selected category, which is still
\* listed and selected
C19_Witness ==
  /\ JustRan("deleteCategory")
  /\ ~lastOp.arg[2] /\ lastOp.arg[3] /\ lastOp.arg[4]
  /\ ObjHas(categories, lastOp.arg[1])
  /\ selectedCategoryKey = lastOp.arg[1]
  /\ itemDefinitions # <<>>

\* the entries of the registry obj that are not stored under key, in order
EntriesBut(obj, key) ==
  LET Other(e) == e.k # key IN SelectSeq(obj, Other)

\* C20: a confirmed delete(key) on either registry leaves no entry under
\* key and every other entry as it was, in its place among the others; when
\* the registry holds no entry under key it stays as it is.
C20_ConfirmedDelete ==
  [][ /\ (lastOp'.op = "deleteCategory" /\ lastOp'.arg[2])
         => /\ ~ObjHas(categories', lastOp'.arg[1])
            /\ EntriesBut(categories', lastOp'.arg[1])
                 = EntriesBut(categories, lastOp'.arg[1])
            /\ Len(categories') =
                 Len(categories) - Cardinality(EntriesUnder(categories, lastOp'.arg[1]))
            /\ ~ObjHas(categories, lastOp'.arg[1]) => categories' = categories
      /\ (lastOp'.op = "deleteItem" /\ lastOp'.arg[2])
         => /\ ~ObjHas(itemDefinitions', lastOp'.arg[1])
            /\ EntriesBut(itemDefinitions', lastOp'.arg[1])
                 = EntriesBut(itemDefinitions, lastOp'.arg[1])
            /\ Len(itemDefinitions') =
                 Len(itemDefinitions)
                   - Cardinality(EntriesUnder(itemDefinitions, lastOp'.arg[1]))
            /\ ~ObjHas(itemDefinitions, lastOp'.arg[1])
                 => itemDefinitions' = itemDefinitions ]_vars

\* item HP was deleted from a registry of two items; item MP stays
C20_Witness ==
  /\ JustRan("deleteItem") /\ lastOp.arg = <<"HP", TRUE, TRUE>>
  /\ Len(itemDefinitions) = 1 /\ ObjHas(itemDefinitions, "MP")
  /\ categories # <<>>

\* C21 (under SpecParts): removePart(index) on a row index of the draft
\* removes the part at index and nothing else: the parts before it stay,
\* the parts behind it move up one row in their order, the length goes
\* down by one; with an index that is not below the number of parts the
\* parts stay as they are.
C21_RemovePart ==
  [][ lastOp'.op = "removePart" =>
        LET index == lastOp'.arg[1]
            old == itemForm.parts
            new == itemForm'.parts
        IN  IF index < Len(old)
            THEN /\ Len(new) = Len(old) - 1
                 /\ \A i \in 1..Len(new) :
                      new[i] = IF i <= index THEN old[i] ELSE old[i + 1]
            ELSE new = old ]_vars

\* the middle one of three parts with three keys was removed
C21_Witness ==
  /\ JustRan("removePart") /\ lastOp.arg = <<1, 3>>
  /\ Len(itemForm.parts) = 2
  /\ itemForm.parts[1].key = "value" /\ itemForm.parts[2].key = "max"
  /\ itemForm.parts[1].label # itemForm.parts[2].label

----------------------------------------------------------------------------
(* Properties of addPart (under SpecAppend)                                *)

\* C22: addPart puts one part with empty key, empty label and data_type
\* string behind the parts of the item draft; the parts that were there,
\* their order, every other field of the draft and both registries stay as
\* they are.
C22_AddPart ==
  [][ lastOp'.op = "addPart" =>
        /\ Len(itemForm'.parts) = Len(itemForm.parts) + 1
        /\ \A i \in 1..Len(itemForm.parts) : itemForm'.parts[i] = itemForm.parts[i]
        /\ itemForm'.parts[Len(itemForm'.parts)]
             = [key |-> "", label |-> "", data_type |-> "string"]
        /\ itemForm' = [itemForm EXCEPT !.parts = itemForm'.parts]
        /\ UNCHANGED <<categories, itemDefinitions>> ]_vars

\* a third part was added to the draft opened from a committed item of two
\* parts, next to a committed category
C22_Witness ==
  /\ JustRan("addPart") /\ isEditingItem
  /\ Len(itemForm.parts) = 3 /\ itemForm.parts[3] = NewPart
  /\ ObjHas(itemDefinitions, itemForm.key)
  /\ Len(StoredItem.parts) = 2
  /\ itemForm.parts[1].label = "L" /\ itemForm.parts[2].label = ""
  /\ categories # <<>>

----------------------------------------------------------------------------
(* Properties of the List fallback (under SpecFormat)                      *)

\* the text t stands somewhere in the text s
ContainsText(s, t) ==
  \E i \in 1..(Len(s) - Len(t) + 1) : SubSeq(s, i, i + Len(t) - 1) = t

\* C23 as claimed: no draft that the editing operations reach has a format
\* that holds the fallback template {item}.
C23_AsClaimed == ~ContainsText(generatedFormat, "{item}")

\* C23 amended: a draft without parts never has the fallback template
\* {item} in its format (its value part is "{" + key + "}"); the format
\* holds {item} exactly for a List draft with one part whose key is empty,
\* and its value part is then "{item}" + separator + "...".
C23_FallbackForEmptyPartKey ==
  /\ (HasKeyAndCategory /\ Len(itemForm.parts) = 0)
       => /\ ~ContainsText(generatedFormat, "{item}")
          /\ ContainsText(generatedFormat, "::{" \o itemForm.key \o "}]")
  /\ ContainsText(generatedFormat, "{item}")
       <=> /\ HasKeyAndCategory /\ itemForm.entry_type = "List"
           /\ Len(itemForm.parts) = 1 /\ itemForm.parts[1].key = ""
  /\ ContainsText(generatedFormat, "{item}")
       => ContainsText(generatedFormat, "::{item}" \o itemForm.separator \o "...]")

\* the key of the one part of a List draft was cleared; the separator is ","
C23_Witness ==
  /\ HasKeyAndCategory /\ itemForm.entry_type = "List"
  /\ Len(itemForm.parts) = 1 /\ itemForm.parts[1].key = ""
  /\ itemForm.parts[1].label = "zhi" /\ itemForm.separator = ","
  /\ ContainsText(generatedFormat, "::{item},...]")

----------------------------------------------------------------------------
(* Properties of saving under another key (under SpecRename)               *)

\* new is old with one more entry, under key: every entry of old is in new
\* under its key as it was
OneMoreEntry(old, new, key) ==
  /\ Len(new) = Len(old) + 1
  /\ ObjKeys(new) = ObjKeys(old) \cup {key}
  /\ \A k \in ObjKeys(old) : ObjGet(new, k) = ObjGet(old, k)

\* C24: a draft saved under a key the registry does not hold, the draft of
\* an entry opened with editItem or editCategory included, leaves every
\* entry of the registry as it was under its key and adds the draft under
\* the new key, so that the registry has one more entry; saving a category
\* leaves the items, the category they name included, as they were.
C24_NoRename ==
  [][ /\ (/\ lastOp'.op = "saveItem" /\ ItemFormValid(itemForm)
           /\ ~ObjHas(itemDefinitions, itemForm.key))
          => /\ OneMoreEntry(itemDefinitions, itemDefinitions', itemForm.key)
             /\ ObjGet(itemDefinitions', itemForm.key).key = itemForm.key
             /\ categories' = categories
      /\ (/\ lastOp'.op = "saveCategory" /\ CategoryFormValid(categoryForm)
           /\ ~ObjHas(categories, categoryForm.key))
          => /\ OneMoreEntry(categories, categories', categoryForm.key)
             /\ ObjGet(categories', categoryForm.key) = categoryForm
             /\ itemDefinitions' = itemDefinitions ]_vars

\* the item HP of category CV was opened, its key retyped to MP and saved:
\* HP is there as it was; the category CV was opened and saved as ST1
\* before, and HP names CV still
C24_Witness ==
  /\ JustRan("saveItem") /\ lastOp.arg[3] /\ lastOp.arg[2] = Undefined
  /\ itemForm.key = "MP" /\ ObjKeys(itemDefinitions) = {"HP", "MP"}
  /\ lastOp.arg[1] = ObjGet(itemDefinitions, "HP").format
  /\ ObjGet(itemDefinitions, "HP").category = "CV"
  /\ ObjGet(itemDefinitions, "HP").format = "[{JueSe}^CV|HP::{HP}]"
  /\ ObjGet(itemDefinitions, "MP").format = "[{JueSe}^CV|MP::{MP}]"
  /\ insertionOrder = <<"CV", "ST1">>
  /\ ObjGet(categories, "ST1") = [ObjGet(categories, "CV") EXCEPT !.key = "ST1"]

----------------------------------------------------------------------------
(* Well-formedness of the registries (under SpecSave)                      *)

\* every entry of obj is stored under its own key, and its key and its
\* name hold more than whitespace
WellFormed(obj) ==
  \A i \in 1..Len(obj) :
    /\ obj[i].k = obj[i].v.key
    /\ Trim(obj[i].v.key) # ""
    /\ Trim(obj[i].v.name) # ""

\* C25: every entry of the category registry and of the item registry is
\* stored under a map key equal to its key field, and its key and its name
\* are neither empty nor whitespace only.
C25_WellFormedRegistries == WellFormed(categories) /\ WellFormed(itemDefinitions)

\* both registries hold two entries, and saveCategory has just turned down
\* a draft with a blank key while the item draft has a blank name
C25_Witness ==
  /\ JustRan("saveCategory") /\ categoryForm.key = " " /\ categoryForm.name = "N"
  /\ itemForm.name = " " /\ itemForm.key = "HP"
  /\ Len(categories) = 2 /\ Len(itemDefinitions) = 2

----------------------------------------------------------------------------
(* Properties of the stored format (under SpecStored)                      *)

\* the format of item with the scope token T
StoredFormatWith(item, T) ==
  "[" \o T \o "^" \o item.category \o "|" \o item.key \o "::"
      \o valuePart(item) \o "]"

\* C26: every committed item has an empty format exactly when its category
\* is empty; otherwise its format is "[" T "^" category "|" key "::" V "]"
\* with T either ST or the character token and V the value part of the
\* item's own stored parts, entry type and separators.
C26_StoredFormat ==
  \A i \in 1..Len(itemDefinitions) :
    LET item == itemDefinitions[i].v IN
    /\ (item.format = "") <=> (item.category = "")
    /\ item.category # ""
         => \E T \in {"ST", RoleToken} : item.format = StoredFormatWith(item, T)

\* the item was saved as a List of two parts under a shared category, the
\* category was deleted since, and the draft has other parts than the entry
C26_Witness ==
  /\ ObjHas(itemDefinitions, "HP") /\ ~ObjHas(categories, "CV")
  /\ ObjGet(itemDefinitions, "HP").category = "CV"
  /\ ObjGet(itemDefinitions, "HP").entry_type = "List"
  /\ ObjGet(itemDefinitions, "HP").format = "[ST^CV|HP::{}@{}|...]"
  /\ itemForm.parts = <<NewPart>> /\ itemForm.entry_type = "Single"
  /\ itemForm.category = ""

----------------------------------------------------------------------------
(* Properties of the scope token of stored formats (under SpecScope)       *)

\* C27: saveCategory and deleteCategory leave the item registry as it is;
\* the format of a committed item changes only when saveItem stores a draft
\* under that item's key, and it then is the format generated from the
\* draft and the categories of that moment.
C27_FormatKeptUntilItemSave ==
  [][ /\ lastOp'.op \in {"saveCategory", "deleteCategory"}
           => itemDefinitions' = itemDefinitions
      /\ \A k \in ObjKeys(itemDefinitions) :
           /\ ObjHas(itemDefinitions', k)
           /\ ObjGet(itemDefinitions', k).format # ObjGet(itemDefinitions, k).format
                => /\ lastOp'.op = "saveItem" /\ itemForm.key = k
                   /\ ObjGet(itemDefinitions', k).format = generatedFormat ]_vars

\* HP was saved while CV was a character category, MP while it was shared;
\* CV was saved as a character category again, then deleted: both formats
\* are those of the items' own saves
C27_Witness ==
  /\ JustRan("deleteCategory") /\ lastOp.arg = <<"CV", TRUE, TRUE, FALSE>>
  /\ ObjKeys(itemDefinitions) = {"HP", "MP"}
  /\ ObjGet(itemDefinitions, "HP").format = "[{JueSe}^CV|HP::{HP}]"
  /\ ObjGet(itemDefinitions, "MP").format = "[ST^CV|MP::{MP}]"
  /\ categoryForm.scope = "character"

====
